---- MODULE Spec2Model ----
(***************************************************************************)
(* Model of the serverless handlers of urpc32/group: one invocation of one *)
(* handler, from the inbound request to the HTTP response, with every      *)
(* outbound fetch and every remote answer.                                 *)
(*                                                                         *)
(* Handlers (h):                                                           *)
(*   "transfer"  src/api/transfer.js:2-67     (logout trick + transfer)    *)
(*   "cgo"       src/api/transfer.js:71-310   (comprehensive handler)      *)
(*   "p000"      src/unnamed/part_000         (client-supplied token)      *)
(*   "p001"      src/unnamed/part_001         (get-csrf via /v2/login)     *)
(*   "p002"      src/unnamed/part_002         (change-group-owner, both    *)
(*                                             copies are identical)       *)
(*   "p003"      src/unnamed/part_003         (get-csrf via /v2/logout)    *)
(*   "p004"      src/unnamed/part_004         (authentication-ticket)      *)
(*   "p005"      src/unnamed/part_005         (client-supplied token)      *)
(*                                                                         *)
(* JavaScript values are records [t, n, s]: t is the type tag, n the       *)
(* number of a "num", s the characters of a "str" (a sequence of           *)
(* one-character strings).                                                 *)
(***************************************************************************)
EXTENDS Integers, Sequences, FiniteSets, TLC

VARIABLES
    h,          \* the handler that is invoked
    req,        \* the inbound request
    pc,         \* position of the invocation: the await it is suspended at
    net,        \* outbound activity so far: fetches and pauses, in order
    sent,       \* the HTTP responses sent so far
    cookieL,    \* local: the cleaned credential (characters)
    gidL,       \* local: the group id used in outbound calls
    uidL,       \* local: the target user id used in outbound calls
    pidL,       \* local: numericPlayerId (change-group-owner)
    tokL,       \* local: the anti-forgery token in hand
    eligL,      \* local: eligibilityResult (change-group-owner)
    groupL,     \* local: groupData (change-group-owner)
    idx,        \* getCSRFToken: number of endpoints tried so far
    lastStatus, \* observation: status of the last token-fetch answer (0: none)
    lastTok,    \* observation: the token header of that answer (null: none)
    saw401,     \* observation: a token fetch answered 401 without a token
    threw,      \* observation: a token fetch threw
    mutAnswers, \* observation: the answers of the mutation calls, in order
    netErr,     \* observation: some outbound call threw a network error
    logs,       \* the console lines written from the credential, in order
    peer,       \* a second invocation, suspended at an await (or none)
    run         \* which of the two invocations the variables above hold

vars == <<h, req, pc, net, sent, cookieL, gidL, uidL, pidL, tokL,
          eligL, groupL, idx, lastStatus, lastTok, saw401, threw,
          mutAnswers, netErr, logs, peer, run>>

(***************************************************************************)
(* Bounds of the model.                                                    *)
(***************************************************************************)
\* number of distinct non-empty anti-forgery tokens the remote may hand out
MaxToken == 2

\* number of characters of a remote body that is not empty
TextLen == 600

(***************************************************************************)
(* JavaScript values and the built-ins the handlers use.                   *)
(***************************************************************************)
V(t, n, s) == [t |-> t, n |-> n, s |-> s]
Undef == V("undef", 0, <<>>)
Null == V("null", 0, <<>>)
NaN == V("nan", 0, <<>>)
Num(n) == V("num", n, <<>>)
Str(s) == V("str", 0, s)

\* !x is true for undefined, null, NaN, 0 and ""
Falsy(v) ==
    \/ v.t \in {"undef", "null", "nan"}
    \/ v.t = "num" /\ v.n = 0
    \/ v.t = "str" /\ v.s = <<>>

DigitChars == <<"0", "1", "2", "3", "4", "5", "6", "7", "8", "9">>

IsDigit(c) == \E i \in 1..10 : DigitChars[i] = c

DigitVal(c) == (CHOOSE i \in 1..10 : DigitChars[i] = c) - 1

RECURSIVE NatToChars(_)
NatToChars(n) ==
    IF n < 10 THEN <<DigitChars[n + 1]>>
    ELSE NatToChars(n \div 10) \o <<DigitChars[(n % 10) + 1]>>

\* Number.prototype.toString / template interpolation of a number
NumToChars(n) == IF n < 0 THEN <<"-">> \o NatToChars(-n) ELSE NatToChars(n)

\* String(v): what `${v}` and v.toString() produce
ToStr(v) ==
    CASE v.t = "str" -> v.s
      [] v.t = "num" -> NumToChars(v.n)
      [] v.t = "nan" -> <<"N", "a", "N">>
      [] v.t = "null" -> <<"n", "u", "l", "l">>
      [] OTHER -> <<"u", "n", "d", "e", "f", "i", "n", "e", "d">>

IsSpace(c) == c = " "

RECURSIVE TrimStart(_)
TrimStart(s) ==
    IF s # <<>> /\ IsSpace(Head(s)) THEN TrimStart(Tail(s)) ELSE s

RECURSIVE TrimEnd(_)
TrimEnd(s) ==
    IF s # <<>> /\ IsSpace(s[Len(s)]) THEN TrimEnd(SubSeq(s, 1, Len(s) - 1)) ELSE s

\* String.prototype.trim
Trim(s) == TrimEnd(TrimStart(s))

\* String.prototype.startsWith
StartsWith(s, p) == Len(s) >= Len(p) /\ SubSeq(s, 1, Len(p)) = p

\* String.prototype.substring(from) and substring(0, to)
SubstringFrom(s, from) == IF from >= Len(s) THEN <<>> ELSE SubSeq(s, from + 1, Len(s))

SubstringTo(s, to) == IF to >= Len(s) THEN s ELSE SubSeq(s, 1, to)

IsQuote(c) == c \in {"\"", "'"}

\* s.replace(/^["']|["']$/g, ""): drops one leading and one trailing quote
StripQuotes(s) ==
    LET a == IF s # <<>> /\ IsQuote(Head(s)) THEN Tail(s) ELSE s
    IN  IF a # <<>> /\ IsQuote(a[Len(a)]) THEN SubSeq(a, 1, Len(a) - 1) ELSE a

RECURSIVE DigitPrefix(_)
\* the longest prefix of s made of decimal digits
DigitPrefix(s) ==
    IF s # <<>> /\ IsDigit(Head(s)) THEN <<Head(s)>> \o DigitPrefix(Tail(s)) ELSE <<>>

RECURSIVE DigitsToNat(_, _)
DigitsToNat(s, acc) ==
    IF s = <<>> THEN acc ELSE DigitsToNat(Tail(s), acc * 10 + DigitVal(Head(s)))

\* parseInt(v, 10): String(v), leading white space skipped, an optional sign,
\* then the longest run of digits; NaN when there is no digit
ParseInt(v) ==
    LET s == TrimStart(ToStr(v))
        neg == s # <<>> /\ Head(s) = "-"
        body == IF s # <<>> /\ Head(s) \in {"-", "+"} THEN Tail(s) ELSE s
        ds == DigitPrefix(body)
    IN  IF ds = <<>> THEN NaN
        ELSE Num(IF neg THEN 0 - DigitsToNat(ds, 0) ELSE DigitsToNat(ds, 0))

IsNaN(v) == v.t = "nan"

\* v <= 0 on the result of parseInt
NonPositive(v) == v.t = "num" /\ v.n <= 0

(***************************************************************************)
(* Inbound requests.                                                       *)
(***************************************************************************)
Handlers == {"transfer", "cgo", "p000", "p001", "p002", "p003", "p004", "p005"}

\* handlers that read req.body as parsed by the platform (bodyParser on)
ParsedBodyHandlers == {"transfer", "p004"}

Prefix == <<".", "R", "O", "B", "L", "O", "S", "E", "C", "U", "R", "I", "T", "Y", "=">>

\* secrets of 9 and of 10 characters
Secret9 == <<"C", "A", "E", "a", "A", "h", "A", "D", "I">>
Secret10 == <<"C", "A", "E", "a", "A", "h", "A", "D", "I", "h">>

CookieValues ==
    { Undef,
      Str(Secret9),
      Str(Prefix \o Secret9),
      Str(Secret10),
      Str(<<" ">> \o Prefix \o Secret10 \o <<" ">>),
      Str(<<"\"">> \o Secret10 \o <<"\"">>),
      Num(1234567890) }

GroupIdValues ==
    { Undef, Num(0), Num(7), Str(<<"1", "2", "a", "b", "c">>), Str(<<"a", "b", "c">>),
      Str(<<"-", "5">>), Str(<<"0">>) }

TargetIdValues ==
    { Undef, Num(9), Num(-3), Str(<<"a", "b", "c">>), Str(<<"0">>) }

PlayerIdValues == { Undef, Num(7), Str(<<"a", "b", "c">>) }

\* the non-empty token number i, as the remote writes it
TokenStr(i) == Str(<<"t", "o", "k">> \o NatToChars(i))

Tokens == { TokenStr(i) : i \in 1..MaxToken }

ClientTokenValues == { Undef, TokenStr(1), Num(5) }

OwnerIdValues == { Undef, Num(7) }

Methods == {"POST", "GET"}

\* the raw body of a request: no bytes, white space only, text that is not
\* JSON, the JSON text null, a JSON object, or a stream that fails while read
RawBodies == {"empty", "blank", "invalid", "null", "object", "readerr"}

\* req.body as the platform's parser leaves it: undefined, null or an object
ParsedBodies == {"absent", "null", "object"}

Request(m, b, g, t, c, k, o, p) ==
    [method |-> m, body |-> b, groupId |-> g, targetId |-> t, cookie |-> c,
     csrfToken |-> k, ownerId |-> o, playerId |-> p]

\* the fields handler hh destructures from the body; a field it never reads
\* is left undefined. targetId stands for the field the handler names
\* newOwnerId (transfer), userId (cgo, p002) or targetId (p000, p004, p005).
Reads(hh) ==
    CASE hh = "transfer" -> {"groupId", "targetId", "cookie"}
      [] hh = "cgo" -> {"groupId", "targetId", "cookie", "playerId"}
      [] hh = "p000" -> {"groupId", "targetId", "cookie", "csrfToken"}
      [] hh = "p001" -> {"cookie"}
      [] hh = "p002" -> {"groupId", "targetId", "cookie"}
      [] hh = "p003" -> {"cookie"}
      [] hh = "p004" -> {"groupId", "targetId", "cookie", "ownerId"}
      [] OTHER -> {"groupId", "targetId", "cookie", "csrfToken"}

FieldValues(hh, f, all) == IF f \in Reads(hh) THEN all ELSE {Undef}

\* a request without a JSON object as body carries no fields
Requests(hh) ==
    { Request(m, b, Undef, Undef, Undef, Undef, Undef, Undef) :
        m \in Methods,
        b \in (IF hh \in ParsedBodyHandlers THEN ParsedBodies ELSE RawBodies) \ {"object"} }
    \cup
    { Request(m, "object", g, t, c, k, o, p) :
        m \in Methods,
        g \in FieldValues(hh, "groupId", GroupIdValues),
        t \in FieldValues(hh, "targetId", TargetIdValues),
        c \in FieldValues(hh, "cookie", CookieValues),
        k \in FieldValues(hh, "csrfToken", ClientTokenValues),
        o \in FieldValues(hh, "ownerId", OwnerIdValues),
        p \in FieldValues(hh, "playerId", PlayerIdValues) }

(***************************************************************************)
(* HTTP responses of the handler.                                          *)
(***************************************************************************)
\* status: the HTTP status; allow: the Allow: POST header is set; error: the
\* error text ("" on success); names: the request fields the error names;
\* rstatus: the remote status the body exposes (0: none); success: the
\* success indicator of the body ("absent" when the body has none); data: the
\* remote body the response passes on ("none": nothing); raw: the number of
\* characters of remote body text the response carries as text
Response(status, allow, error, names, rstatus, success, data) ==
    [status |-> status, allow |-> allow, error |-> error, names |-> names,
     rstatus |-> rstatus, success |-> success, data |-> data, raw |-> 0]

\* the response r with n characters of remote body text put in
WithRaw(r, n) == [r EXCEPT !.raw = n]

\* the length of text.substring(0, n) for a text of len characters
SubstringLen(len, n) == IF n >= len THEN len ELSE n

\* an error response that names no field and passes nothing on
Fail(status, allow, error, success) ==
    Response(status, allow, error, {}, 0, success, "none")

(***************************************************************************)
(* Outbound activity and the remote's answers.                             *)
(***************************************************************************)
\* a fetch: the endpoint, the Cookie header, the anti-forgery header
\* (undefined: not set), and the group id and user id put in the URL or body
Fetch(ep, cookie, token, gid, uid) ==
    [kind |-> "fetch", ep |-> ep, cookie |-> cookie, token |-> token,
     gid |-> gid, uid |-> uid]

\* the pause of getCSRFToken's fallback loop
Pause ==
    [kind |-> "pause", ep |-> "", cookie |-> <<>>, token |-> Undef,
     gid |-> Undef, uid |-> Undef]

Calls == SelectSeq(net, LAMBDA e : e.kind = "fetch")

\* the Cookie header every handler builds: `.ROBLOSECURITY=${cookie}`
CookieHeader(c) == Prefix \o c

NoHdr == [name |-> "", value |-> Undef]

\* the remote is inconsistent about the casing of the header's name
NameVariant(i) ==
    CASE i % 3 = 1 -> "x-csrf-token"
      [] i % 3 = 2 -> "X-CSRF-TOKEN"
      [] OTHER -> "X-CSRF-Token"

HeaderOptions ==
    { NoHdr, [name |-> "x-csrf-token", value |-> Str(<<>>)] }
    \cup { [name |-> NameVariant(i), value |-> TokenStr(i)] : i \in 1..MaxToken }

\* Headers lower-cases the names it stores and the names it is asked for
LowerName(n) ==
    IF n \in {"x-csrf-token", "X-CSRF-TOKEN", "X-CSRF-Token"} THEN "x-csrf-token" ELSE n

\* response.headers.get(name): null when the header is absent
HeadersGet(a, name) ==
    IF a.hdr.name # "" /\ LowerName(a.hdr.name) = LowerName(name)
    THEN a.hdr.value
    ELSE Null

\* response.ok
Ok(a) == a.status >= 200 /\ a.status <= 299

TokenStatuses == {200, 401, 403}

\* what a token-fetch call can end with: an answer, or a thrown network error
TokenAnswers ==
    { [thrown |-> FALSE, status |-> st, hdr |-> x] :
        st \in TokenStatuses, x \in HeaderOptions }
    \cup { [thrown |-> TRUE, status |-> 0, hdr |-> NoHdr] }

\* bodies of a mutation answer: "data" a JSON object, "empty" no body,
\* "errChallenge", "errCsrf", "errOther" a JSON error list whose first
\* message holds the word Challenge, the word CSRF, or neither, "text" a
\* body that is not JSON
MutationAnswers ==
    { [thrown |-> FALSE, status |-> 200, body |-> "data"],
      [thrown |-> FALSE, status |-> 200, body |-> "empty"],
      [thrown |-> FALSE, status |-> 204, body |-> "empty"],
      [thrown |-> FALSE, status |-> 400, body |-> "errOther"],
      [thrown |-> FALSE, status |-> 401, body |-> "errOther"],
      [thrown |-> FALSE, status |-> 403, body |-> "errChallenge"],
      [thrown |-> FALSE, status |-> 403, body |-> "errCsrf"],
      [thrown |-> FALSE, status |-> 403, body |-> "errOther"],
      [thrown |-> FALSE, status |-> 403, body |-> "text"],
      [thrown |-> FALSE, status |-> 404, body |-> "errOther"],
      [thrown |-> FALSE, status |-> 429, body |-> "empty"],
      [thrown |-> FALSE, status |-> 500, body |-> "text"],
      [thrown |-> TRUE, status |-> 0, body |-> "empty"] }

\* the length of response.text()
BodyLen(body) == IF body = "empty" THEN 0 ELSE TextLen

\* response.json() succeeds on a JSON body only
JsonParses(a) == a.body \in {"data", "errChallenge", "errCsrf", "errOther"}

(***************************************************************************)
(* The start of an invocation.                                             *)
(***************************************************************************)
NoElig == [userId |-> Undef, accountAge |-> -1, hasVerifiedEmail |-> FALSE]

NoGroup == [owner |-> Undef, named |-> FALSE]

\* the locals and observations of an invocation that has not begun
Fresh ==
    /\ pc = "start"
    /\ net = <<>>
    /\ sent = <<>>
    /\ cookieL = <<>>
    /\ gidL = Undef
    /\ uidL = Undef
    /\ pidL = Null
    /\ tokL = Undef
    /\ eligL = NoElig
    /\ groupL = NoGroup
    /\ idx = 0
    /\ lastStatus = 0
    /\ lastTok = Null
    /\ saw401 = FALSE
    /\ threw = FALSE
    /\ mutAnswers = <<>>
    /\ netErr = FALSE
    /\ logs = <<>>

\* no second invocation
NoPeer == [pc |-> "absent"]

Init ==
    /\ h \in Handlers
    /\ req \in Requests(h)
    /\ Fresh
    /\ peer = NoPeer
    /\ run = 1

Locals == <<cookieL, gidL, uidL, pidL, tokL, eligL, groupL, idx>>

Observed == <<lastStatus, lastTok, saw401, threw>>

\* res.status(..).json(..): the invocation returns with the response sent
Respond(r) ==
    /\ sent' = Append(sent, r)
    /\ pc' = "done"

\* an exception no try block catches: the invocation ends without a response
Crash ==
    /\ pc' = "crashed"
    /\ sent' = sent

\* await fetch(..): the call goes out and the invocation waits at `at`
Issue(call, at) ==
    /\ net' = Append(net, call)
    /\ pc' = at
    /\ sent' = sent

\* a step that only answers the caller
Reply(r) ==
    /\ Respond(r)
    /\ UNCHANGED <<net, Locals>>

\* a step that ends in an uncaught exception
Uncaught ==
    /\ Crash
    /\ UNCHANGED <<net, Locals>>

\* the token-fetch answer a is recorded as observed
Observe(a) ==
    /\ lastStatus' = a.status
    /\ lastTok' = HeadersGet(a, "x-csrf-token")
    /\ saw401' = (saw401 \/ (~a.thrown /\ a.status = 401 /\ Falsy(HeadersGet(a, "x-csrf-token"))))
    /\ threw' = (threw \/ a.thrown)
    /\ netErr' = (netErr \/ a.thrown)
    /\ UNCHANGED <<mutAnswers, logs>>

\* the answer a of a mutation call is recorded as observed
ObserveMutation(a) ==
    /\ mutAnswers' = Append(mutAnswers, a)
    /\ netErr' = (netErr \/ a.thrown)
    /\ logs' = logs

\* the answer a of a look-up call is recorded as observed
ObserveLookup(a) ==
    /\ netErr' = (netErr \/ a.thrown)
    /\ UNCHANGED <<mutAnswers, logs>>

MinCookieLen == 10

(***************************************************************************)
(* api/transfer.js, first handler: logout trick, then transfer-ownership.  *)
(***************************************************************************)
\* lines 9-11: the prefix is cut off when present; nothing is trimmed
TransferCleanCookie(c) ==
    IF StartsWith(c, Prefix) THEN SubstringFrom(c, 15) ELSE c

\* lines 14-15: the two console lines written from the cleaned credential
CookieLogLines(c) ==
    << NumToChars(Len(c)), SubstringTo(c, 50) \o <<".", ".", ".">> >>

\* the request gets past line 11: the credential is cleaned and logged
TransferCleans ==
    /\ req.method = "POST" /\ req.body = "object"
    /\ ~(Falsy(req.groupId) \/ Falsy(req.targetId) \/ Falsy(req.cookie))
    /\ req.cookie.t = "str"

TransferEntry ==
    /\ pc = "start" /\ h = "transfer"
    /\ UNCHANGED <<h, req, peer, run, Observed, mutAnswers, netErr>>
    /\ logs' = IF TransferCleans
               THEN logs \o CookieLogLines(TransferCleanCookie(req.cookie.s))
               ELSE logs
    /\ IF req.method # "POST"
       THEN Reply(Fail(405, FALSE, "POST only", "absent"))
       ELSE IF req.body # "object"
       THEN \* destructuring undefined or null throws before the try block
            Uncaught
       ELSE IF Falsy(req.groupId) \/ Falsy(req.targetId) \/ Falsy(req.cookie)
       THEN Reply(Response(400, FALSE, "Need groupId, newOwnerId, cookie",
                           {"groupId", "targetId", "cookie"}, 0, "absent", "none"))
       ELSE IF req.cookie.t # "str"
       THEN \* cookie.startsWith is not a function: caught at line 64
            Reply(Fail(500, FALSE, "Server error", "absent"))
       ELSE /\ cookieL' = TransferCleanCookie(req.cookie.s)
            /\ gidL' = req.groupId
            /\ uidL' = req.targetId
            /\ Issue(Fetch("logout", CookieHeader(cookieL'), Undef, Undef, Undef), "csrf")
            /\ UNCHANGED <<pidL, tokL, eligL, groupL, idx>>

TransferCsrf ==
    /\ pc = "csrf" /\ h = "transfer"
    /\ UNCHANGED <<h, req, peer, run>>
    /\ \E a \in TokenAnswers :
        /\ Observe(a)
        /\ IF a.thrown
           THEN Reply(Fail(500, FALSE, "Server error", "absent"))
           ELSE IF ~Ok(a)
           THEN \* lines 31-36: details is the whole body
                Reply(WithRaw(Response(401, FALSE, "Invalid cookie-CSRF fetch failed",
                                       {}, a.status, "absent", "none"), TextLen))
           ELSE IF Falsy(HeadersGet(a, "x-csrf-token"))
           THEN Reply(Fail(400, FALSE, "No CSRF token in headers-bad cookie?", "absent"))
           ELSE /\ tokL' = HeadersGet(a, "x-csrf-token")
                /\ Issue(Fetch("transfer-ownership", CookieHeader(cookieL), tokL',
                               gidL, uidL), "xfer")
                /\ UNCHANGED <<cookieL, gidL, uidL, pidL, eligL, groupL, idx>>

TransferMutation ==
    /\ pc = "xfer" /\ h = "transfer"
    /\ UNCHANGED <<h, req, peer, run, Observed>>
    /\ \E a \in MutationAnswers :
        /\ ObserveMutation(a)
        /\ IF a.thrown
           THEN Reply(Fail(500, FALSE, "Server error", "absent"))
           ELSE IF ~Ok(a)
           THEN \* lines 58-59: details is the whole body
                Reply(WithRaw(Response(a.status, FALSE, "Transfer failed", {}, 0,
                                       "absent", a.body), BodyLen(a.body)))
           ELSE IF ~JsonParses(a)
           THEN \* transferRes.json() throws: caught at line 64
                Reply(Fail(500, FALSE, "Server error", "absent"))
           ELSE Reply(Response(200, FALSE, "", {}, 0, "true", a.body))

(***************************************************************************)
(* part_004: authentication-ticket for the token, then change-owner.       *)
(***************************************************************************)
AllFour004 == {"ownerId", "targetId", "cookie", "groupId"}

P004Entry ==
    /\ pc = "start" /\ h = "p004"
    /\ UNCHANGED <<h, req, peer, run, Observed, mutAnswers, netErr, logs>>
    /\ IF req.method # "POST"
       THEN Reply(Fail(405, FALSE, "Method not allowed", "absent"))
       ELSE IF req.body # "object"
       THEN \* destructuring undefined or null throws inside the try block
            Reply(Fail(500, FALSE, "Internal server error", "absent"))
       ELSE IF Falsy(req.ownerId) \/ Falsy(req.targetId) \/ Falsy(req.cookie)
               \/ Falsy(req.groupId)
       THEN Reply(Response(400, FALSE, "Missing required parameters", AllFour004,
                           0, "absent", "none"))
       ELSE /\ cookieL' = ToStr(req.cookie)
            /\ gidL' = req.groupId
            /\ uidL' = ParseInt(req.targetId)
            /\ Issue(Fetch("authentication-ticket", CookieHeader(cookieL'), Undef,
                           Undef, Undef), "csrf")
            /\ UNCHANGED <<pidL, tokL, eligL, groupL, idx>>

P004Csrf ==
    /\ pc = "csrf" /\ h = "p004"
    /\ UNCHANGED <<h, req, peer, run>>
    /\ \E a \in TokenAnswers :
        /\ Observe(a)
        /\ IF a.thrown
           THEN Reply(Fail(500, FALSE, "Internal server error", "absent"))
           ELSE IF Falsy(HeadersGet(a, "x-csrf-token"))
           THEN Reply(Fail(401, FALSE, "Failed to obtain CSRF token", "absent"))
           ELSE /\ tokL' = HeadersGet(a, "x-csrf-token")
                /\ Issue(Fetch("change-owner", CookieHeader(cookieL), tokL',
                               gidL, uidL), "xfer")
                /\ UNCHANGED <<cookieL, gidL, uidL, pidL, eligL, groupL, idx>>

P004Mutation ==
    /\ pc = "xfer" /\ h = "p004"
    /\ UNCHANGED <<h, req, peer, run, Observed>>
    /\ \E a \in MutationAnswers :
        /\ ObserveMutation(a)
        /\ IF a.thrown \/ ~JsonParses(a)
           THEN \* fetch or transferResponse.json() throws: caught at line 74
                Reply(Fail(500, FALSE, "Internal server error", "absent"))
           ELSE IF ~Ok(a)
           THEN Reply(Response(a.status, FALSE, "Ownership transfer failed", {},
                               a.status, "absent", a.body))
           ELSE Reply(Response(200, FALSE, "", {}, 0, "true", a.body))

(***************************************************************************)
(* part_000 and part_005: the client supplies the token.                   *)
(***************************************************************************)
\* part_000 line 34 and part_003 line 28
QuotedCleanCookie(raw) ==
    StripQuotes(Trim(ToStr(IF Falsy(raw) THEN Str(<<>>) ELSE raw)))

\* part_000 line 32: the defaults "" apply to undefined only
OrEmpty(v) == IF v.t = "undef" THEN Str(<<>>) ELSE v

\* the keys of `got` that survive JSON.stringify (part_000 line 42)
GotKeys000 ==
    {"cookie", "csrfToken"}
    \cup (IF req.groupId.t = "undef" THEN {} ELSE {"groupId"})
    \cup (IF req.targetId.t = "undef" THEN {} ELSE {"targetId"})

P000Entry ==
    /\ pc = "start" /\ h = "p000"
    /\ UNCHANGED <<h, req, peer, run, Observed, mutAnswers, netErr, logs>>
    /\ IF req.method # "POST"
       THEN Reply(Fail(405, TRUE, "Method not allowed", "absent"))
       ELSE IF req.body \in {"readerr", "empty", "blank"}
       THEN Reply(Fail(400, FALSE, "No body sent", "absent"))
       ELSE IF req.body = "invalid"
       THEN Reply(Fail(400, FALSE, "Invalid JSON", "absent"))
       ELSE IF req.body = "null"
       THEN \* destructuring null throws outside every try block
            Uncaught
       ELSE IF Falsy(Str(QuotedCleanCookie(req.cookie))) \/ Falsy(OrEmpty(req.csrfToken))
               \/ Falsy(req.groupId) \/ Falsy(req.targetId)
       THEN Reply(Response(400, FALSE, "Missing required fields", GotKeys000,
                           0, "absent", "none"))
       ELSE IF IsNaN(ParseInt(req.groupId)) \/ IsNaN(ParseInt(req.targetId))
       THEN Reply(Response(400, FALSE, "groupId and targetId must be numbers",
                           {"groupId", "targetId"}, 0, "absent", "none"))
       ELSE IF req.csrfToken.t # "str"
       THEN \* csrfToken.trim is not a function: caught at line 100
            Reply(Fail(500, FALSE, "Internal server error", "absent"))
       ELSE /\ cookieL' = QuotedCleanCookie(req.cookie)
            /\ gidL' = ParseInt(req.groupId)
            /\ uidL' = ParseInt(req.targetId)
            /\ tokL' = Str(Trim(req.csrfToken.s))
            /\ Issue(Fetch("change-owner", CookieHeader(cookieL'), tokL', gidL', uidL'),
                     "xfer")
            /\ UNCHANGED <<pidL, eligL, groupL, idx>>

P000Mutation ==
    /\ pc = "xfer" /\ h = "p000"
    /\ UNCHANGED <<h, req, peer, run, Observed>>
    /\ \E a \in MutationAnswers :
        /\ ObserveMutation(a)
        /\ LET data == IF JsonParses(a) THEN a.body ELSE "emptyObject"
           IN  IF a.thrown
               THEN Reply(Fail(500, FALSE, "Internal server error", "absent"))
               ELSE IF ~Ok(a) /\ a.status = 401
               THEN Reply(Response(401, FALSE, "Invalid or expired .ROBLOSECURITY cookie",
                                   {}, 0, "absent", data))
               ELSE IF ~Ok(a) /\ a.status = 403
               THEN Reply(Response(403, FALSE, "Invalid X-CSRF-TOKEN", {}, 0, "absent", data))
               ELSE IF ~Ok(a)
               THEN Reply(Response(a.status, FALSE, "Roblox rejected the request", {},
                                   a.status, "absent", data))
               ELSE Reply(Response(200, FALSE, "", {}, 0, "true", data))

AllFour005 == {"cookie", "csrfToken", "groupId", "targetId"}

P005Entry ==
    /\ pc = "start" /\ h = "p005"
    /\ UNCHANGED <<h, req, peer, run, Observed, mutAnswers, netErr, logs>>
    /\ IF req.method # "POST"
       THEN Reply(Fail(405, TRUE, "Method not allowed", "absent"))
       ELSE IF req.body \in {"empty", "blank"}
       THEN Reply(Fail(400, FALSE, "Empty request body", "absent"))
       ELSE IF req.body \in {"readerr", "invalid"}
       THEN Reply(Fail(400, FALSE, "Invalid JSON in request body", "absent"))
       ELSE IF req.body = "null"
       THEN \* destructuring null throws inside the second try block
            Reply(Fail(500, FALSE, "Internal server error", "absent"))
       ELSE IF Falsy(req.cookie) \/ Falsy(req.csrfToken) \/ Falsy(req.groupId)
               \/ Falsy(req.targetId)
       THEN Reply(Response(400, FALSE, "Missing required parameters", AllFour005,
                           0, "absent", "none"))
       ELSE IF IsNaN(ParseInt(req.groupId)) \/ IsNaN(ParseInt(req.targetId))
       THEN Reply(Response(400, FALSE, "groupId and targetId must be valid numbers",
                           {"groupId", "targetId"}, 0, "absent", "none"))
       ELSE /\ cookieL' = ToStr(req.cookie)
            /\ gidL' = ParseInt(req.groupId)
            /\ uidL' = ParseInt(req.targetId)
            /\ tokL' = Str(ToStr(req.csrfToken))
            /\ Issue(Fetch("change-owner", CookieHeader(cookieL'), tokL', gidL', uidL'),
                     "xfer")
            /\ UNCHANGED <<pidL, eligL, groupL, idx>>

P005Mutation ==
    /\ pc = "xfer" /\ h = "p005"
    /\ UNCHANGED <<h, req, peer, run, Observed>>
    /\ \E a \in MutationAnswers :
        /\ ObserveMutation(a)
        /\ IF a.thrown \/ ~JsonParses(a)
           THEN \* fetch or response.json() throws: caught at line 79
                Reply(Fail(500, FALSE, "Internal server error", "absent"))
           ELSE IF ~Ok(a)
           THEN Reply(Response(a.status, FALSE, "Roblox API error", {}, a.status,
                               "absent", a.body))
           ELSE Reply(Response(200, FALSE, "", {}, 0, "true", a.body))

(***************************************************************************)
(* part_001, part_003: the get-csrf handlers; part_002: change-group-owner *)
(* with the token taken from the change-owner endpoint itself.             *)
(***************************************************************************)
\* part_001 lines 30-35, part_002 lines 68-73, transfer.js lines 130-133
CleanCookie(raw) ==
    LET c == Trim(ToStr(IF Falsy(raw) THEN Str(<<>>) ELSE raw))
    IN  IF StartsWith(c, Prefix) THEN SubstringFrom(c, Len(Prefix)) ELSE c

\* part_001 line 37, part_002 line 75
CookieRejectedCA(c) ==
    c = <<>> \/ Len(c) < MinCookieLen \/ ~StartsWith(c, <<"C", "A">>)

\* the three look-ups of part_001 lines 61-64 and transfer.js lines 329-331
GetTokenAnyCase(a) ==
    IF ~Falsy(HeadersGet(a, "x-csrf-token")) THEN HeadersGet(a, "x-csrf-token")
    ELSE IF ~Falsy(HeadersGet(a, "X-CSRF-Token")) THEN HeadersGet(a, "X-CSRF-Token")
    ELSE HeadersGet(a, "X-CSRF-TOKEN")

P001Entry ==
    /\ pc = "start" /\ h = "p001"
    /\ UNCHANGED <<h, req, peer, run, Observed, mutAnswers, netErr, logs>>
    /\ IF req.method # "POST"
       THEN Reply(Fail(405, TRUE, "Method not allowed", "absent"))
       ELSE IF req.body = "readerr"
       THEN Reply(Fail(400, FALSE, "Failed to read request body", "absent"))
       ELSE IF req.body \in {"blank", "invalid"}
       THEN Reply(Fail(400, FALSE, "Invalid JSON in request body", "absent"))
       ELSE IF req.body = "null"
       THEN Uncaught
       ELSE IF CookieRejectedCA(CleanCookie(req.cookie))
       THEN Reply(Response(400, FALSE, "Invalid or missing .ROBLOSECURITY cookie",
                           {"cookie"}, 0, "absent", "none"))
       ELSE /\ cookieL' = CleanCookie(req.cookie)
            /\ Issue(Fetch("login", CookieHeader(cookieL'), Undef, Undef, Undef), "csrf")
            /\ UNCHANGED <<gidL, uidL, pidL, tokL, eligL, groupL, idx>>

P001Csrf ==
    /\ pc = "csrf" /\ h = "p001"
    /\ UNCHANGED <<h, req, peer, run>>
    /\ \E a \in TokenAnswers :
        /\ Observe(a)
        /\ IF a.thrown
           THEN Reply(Fail(500, FALSE, "Internal server error while fetching CSRF token",
                           "false"))
           ELSE IF Falsy(GetTokenAnyCase(a))
           THEN \* line 73: responseBody is text.substring(0, 500)
                Reply(WithRaw(Response(400, FALSE, "No X-CSRF-TOKEN returned from Roblox",
                                       {}, a.status, "false", "none"),
                              SubstringLen(TextLen, 500)))
           ELSE /\ tokL' = GetTokenAnyCase(a)
                /\ Respond(Response(200, FALSE, "", {}, 0, "true", "csrfToken"))
                /\ UNCHANGED <<net, cookieL, gidL, uidL, pidL, eligL, groupL, idx>>

P003Entry ==
    /\ pc = "start" /\ h = "p003"
    /\ UNCHANGED <<h, req, peer, run, Observed, mutAnswers, netErr, logs>>
    /\ IF req.method # "POST"
       THEN Reply(Fail(405, TRUE, "Method not allowed", "absent"))
       ELSE IF req.body \in {"readerr", "empty", "blank"}
       THEN Reply(Fail(400, FALSE, "No body sent", "absent"))
       ELSE IF req.body = "invalid"
       THEN Reply(Fail(400, FALSE, "Invalid JSON", "absent"))
       ELSE IF req.body = "null"
       THEN Uncaught
       ELSE IF QuotedCleanCookie(req.cookie) = <<>>
       THEN Reply(Response(400, FALSE, "Missing .ROBLOSECURITY cookie", {"cookie"},
                           0, "absent", "none"))
       ELSE /\ cookieL' = QuotedCleanCookie(req.cookie)
            /\ Issue(Fetch("logout", CookieHeader(cookieL'), Undef, Undef, Undef), "csrf")
            /\ UNCHANGED <<gidL, uidL, pidL, tokL, eligL, groupL, idx>>

P003Csrf ==
    /\ pc = "csrf" /\ h = "p003"
    /\ UNCHANGED <<h, req, peer, run>>
    /\ \E a \in TokenAnswers :
        /\ Observe(a)
        /\ IF a.thrown
           THEN Reply(Fail(500, FALSE, "Unexpected error while fetching CSRF token",
                           "absent"))
           ELSE IF Falsy(HeadersGet(a, "x-csrf-token"))
           THEN \* line 53: robloxBody is the whole body
                Reply(WithRaw(Response(400, FALSE, "Failed to retrieve X-CSRF-TOKEN", {},
                                       a.status, "absent", "none"), TextLen))
           ELSE /\ tokL' = HeadersGet(a, "x-csrf-token")
                /\ Respond(Response(200, FALSE, "", {}, 0, "true", "csrfToken"))
                /\ UNCHANGED <<net, cookieL, gidL, uidL, pidL, eligL, groupL, idx>>

P002Entry ==
    /\ pc = "start" /\ h = "p002"
    /\ UNCHANGED <<h, req, peer, run, Observed, mutAnswers, netErr, logs>>
    /\ IF req.method # "POST"
       THEN Reply(Fail(405, TRUE, "Method not allowed", "absent"))
       ELSE IF req.body = "readerr"
       THEN Reply(Fail(400, FALSE, "Failed to read request body", "absent"))
       ELSE IF req.body \in {"blank", "invalid"}
       THEN Reply(Fail(400, FALSE, "Invalid JSON in request body", "absent"))
       ELSE IF req.body = "null"
       THEN Uncaught
       ELSE IF Falsy(req.groupId)
       THEN Reply(Response(400, FALSE, "Missing required field: groupId", {"groupId"},
                           0, "false", "none"))
       ELSE IF Falsy(req.targetId)
       THEN Reply(Response(400, FALSE, "Missing required field: userId", {"targetId"},
                           0, "false", "none"))
       ELSE IF IsNaN(ParseInt(req.groupId)) \/ NonPositive(ParseInt(req.groupId))
       THEN Reply(Response(400, FALSE, "Invalid groupId", {"groupId"}, 0, "false", "none"))
       ELSE IF IsNaN(ParseInt(req.targetId)) \/ NonPositive(ParseInt(req.targetId))
       THEN Reply(Response(400, FALSE, "Invalid userId", {"targetId"}, 0, "false", "none"))
       ELSE IF CookieRejectedCA(CleanCookie(req.cookie))
       THEN Reply(Response(400, FALSE, "Invalid or missing .ROBLOSECURITY cookie",
                           {"cookie"}, 0, "false", "none"))
       ELSE /\ cookieL' = CleanCookie(req.cookie)
            /\ gidL' = ParseInt(req.groupId)
            /\ uidL' = ParseInt(req.targetId)
            /\ Issue(Fetch("change-owner", CookieHeader(cookieL'), Undef, gidL', uidL'),
                     "csrf")
            /\ UNCHANGED <<pidL, tokL, eligL, groupL, idx>>

P002Csrf ==
    /\ pc = "csrf" /\ h = "p002"
    /\ UNCHANGED <<h, req, peer, run>>
    /\ \E a \in TokenAnswers :
        /\ Observe(a)
        /\ IF a.thrown
           THEN Reply(Fail(500, FALSE, "Internal server error while fetching CSRF token",
                           "false"))
           ELSE IF Falsy(HeadersGet(a, "x-csrf-token"))
           THEN \* line 124: details is errorText.substring(0, 200)
                Reply(WithRaw(Response(400, FALSE, "Failed to obtain CSRF token from Roblox",
                                       {}, a.status, "false", "none"),
                              SubstringLen(TextLen, 200)))
           ELSE /\ tokL' = HeadersGet(a, "x-csrf-token")
                /\ Issue(Fetch("change-owner", CookieHeader(cookieL), tokL', gidL, uidL),
                         "xfer")
                /\ UNCHANGED <<cookieL, gidL, uidL, pidL, eligL, groupL, idx>>

\* part_002 lines 158-169: the body as text, parsed when it is not empty
ResponseData002(a) ==
    CASE a.body = "empty" -> "emptyObject"
      [] JsonParses(a) -> a.body
      [] OTHER -> "rawResponse"

\* part_002 line 168: rawResponse is responseText.substring(0, 500)
RawResponse002(a) ==
    IF ResponseData002(a) = "rawResponse" THEN SubstringLen(BodyLen(a.body), 500) ELSE 0

\* part_002 line 199
Upstream(status) == IF status >= 500 THEN 502 ELSE status

\* part_002 lines 187-201
ErrorMessages002(status) ==
    CASE status = 400 -> "Bad request - Invalid groupId or userId format"
      [] status = 401 -> "Unauthorized - Cookie is invalid or expired"
      [] status = 403 -> "Forbidden - You may not have permission to transfer this group, or user is not in the group"
      [] status = 404 -> "Not found - Group or user does not exist"
      [] status = 429 -> "Rate limited - Too many requests, try again later"
      [] status = 500 -> "Roblox server error - Try again later"
      [] status = 503 -> "Roblox service unavailable - Try again later"
      [] OTHER -> "Request failed with status"

P002Mutation ==
    /\ pc = "xfer" /\ h = "p002"
    /\ UNCHANGED <<h, req, peer, run, Observed>>
    /\ \E a \in MutationAnswers :
        /\ ObserveMutation(a)
        /\ IF a.thrown
           THEN Reply(Fail(500, FALSE, "Internal server error while changing group owner",
                           "false"))
           ELSE IF a.status = 200
           THEN Reply(WithRaw(Response(200, FALSE, "", {}, 0, "true", ResponseData002(a)),
                              RawResponse002(a)))
           ELSE Reply(WithRaw(Response(Upstream(a.status), FALSE,
                                       ErrorMessages002(a.status), {}, a.status, "false",
                                       ResponseData002(a)), RawResponse002(a)))

(***************************************************************************)
(* api/transfer.js, second handler: the comprehensive change-group-owner.  *)
(***************************************************************************)
\* lines 98-103: the fields reported missing
MissingCgo ==
    (IF Falsy(req.groupId) THEN {"groupId"} ELSE {})
    \cup (IF Falsy(req.targetId) THEN {"targetId"} ELSE {})
    \cup (IF Falsy(req.cookie) THEN {"cookie"} ELSE {})

\* line 135
CookieRejected(c) == c = <<>> \/ Len(c) < MinCookieLen

\* line 113
NumericPlayerId(v) == IF Falsy(v) THEN Null ELSE ParseInt(v)

CgoEntry ==
    /\ pc = "start" /\ h = "cgo"
    /\ UNCHANGED <<h, req, peer, run, Observed, mutAnswers, netErr, logs>>
    /\ IF req.method # "POST"
       THEN Reply(Fail(405, TRUE, "Method not allowed", "absent"))
       ELSE IF req.body = "readerr"
       THEN Reply(Fail(400, FALSE, "Failed to read request body", "absent"))
       ELSE IF req.body \in {"blank", "invalid"}
       THEN Reply(Fail(400, FALSE, "Invalid JSON in request body", "absent"))
       ELSE IF req.body = "null"
       THEN \* line 95 destructures null outside every try block
            Uncaught
       ELSE IF MissingCgo # {}
       THEN Reply(Response(400, FALSE, "Missing required parameters", MissingCgo,
                           0, "false", "none"))
       ELSE IF IsNaN(ParseInt(req.groupId)) \/ NonPositive(ParseInt(req.groupId))
       THEN Reply(Response(400, FALSE, "Invalid groupId: must be a positive number",
                           {"groupId"}, 0, "false", "none"))
       ELSE IF IsNaN(ParseInt(req.targetId)) \/ NonPositive(ParseInt(req.targetId))
       THEN Reply(Response(400, FALSE, "Invalid newOwnerId: must be a positive number",
                           {"targetId"}, 0, "false", "none"))
       ELSE IF CookieRejected(CleanCookie(req.cookie))
       THEN Reply(Response(400, FALSE, "Invalid cookie: empty after cleaning",
                           {"cookie"}, 0, "false", "none"))
       ELSE /\ cookieL' = CleanCookie(req.cookie)
            /\ gidL' = ParseInt(req.groupId)
            /\ uidL' = ParseInt(req.targetId)
            /\ pidL' = NumericPlayerId(req.playerId)
            /\ Issue(Fetch("users-authenticated", CookieHeader(cookieL'), Undef, Undef,
                           Undef), "auth")
            /\ UNCHANGED <<tokL, eligL, groupL, idx>>

\* answers of users/authenticated: a user record with id and name, a JSON
\* body without id, a rejection, or a thrown network error
AuthAnswers ==
    { [thrown |-> FALSE, status |-> 200, body |-> "user", id |-> Num(7)],
      [thrown |-> FALSE, status |-> 200, body |-> "user", id |-> Num(8)],
      [thrown |-> FALSE, status |-> 200, body |-> "noid", id |-> Undef],
      [thrown |-> FALSE, status |-> 401, body |-> "text", id |-> Undef],
      [thrown |-> TRUE, status |-> 0, body |-> "text", id |-> Undef] }

\* getAuthenticatedUser, lines 380-412
AuthResult(a) ==
    IF a.thrown THEN [success |-> FALSE, userId |-> Undef, status |-> 0]
    ELSE IF Ok(a) /\ a.body = "user"
    THEN [success |-> TRUE, userId |-> ParseInt(a.id), status |-> 0]
    ELSE IF Ok(a)
    THEN \* response.text() after response.json(): the body is used, line 406
         [success |-> FALSE, userId |-> Undef, status |-> 0]
    ELSE [success |-> FALSE, userId |-> Undef, status |-> a.status]

\* lines 401-405 and 480-484: the error of a rejected look-up ends with the
\* whole body of the answer
LookupRaw(a) == IF ~a.thrown /\ ~Ok(a) THEN TextLen ELSE 0

CgoAuth ==
    /\ pc = "auth" /\ h = "cgo"
    /\ UNCHANGED <<h, req, peer, run, Observed>>
    /\ \E a \in AuthAnswers :
        /\ ObserveLookup(a)
        /\ IF ~AuthResult(a).success
           THEN Reply(WithRaw(Response(400, FALSE, "Eligibility check failed", {},
                                       AuthResult(a).status, "false", "none"),
                              LookupRaw(a)))
           ELSE /\ eligL' = [eligL EXCEPT !.userId = AuthResult(a).userId]
                /\ Issue(Fetch("users-detail", CookieHeader(cookieL), Undef, Undef,
                               AuthResult(a).userId), "detail")
                /\ UNCHANGED <<cookieL, gidL, uidL, pidL, tokL, groupL, idx>>

DetailAnswers ==
    { [thrown |-> FALSE, status |-> 200, age |-> 5, verified |-> FALSE],
      [thrown |-> FALSE, status |-> 200, age |-> 400, verified |-> TRUE],
      [thrown |-> FALSE, status |-> 500, age |-> -1, verified |-> FALSE],
      [thrown |-> TRUE, status |-> 0, age |-> -1, verified |-> FALSE] }

\* checkAccountEligibility, lines 421-461
Eligibility(userId, a) ==
    IF ~a.thrown /\ Ok(a)
    THEN [userId |-> userId, accountAge |-> a.age, hasVerifiedEmail |-> a.verified]
    ELSE [userId |-> userId, accountAge |-> -1, hasVerifiedEmail |-> FALSE]

\* lines 168-176
Warnings(e) ==
    (IF e.accountAge >= 0 /\ e.accountAge < 30 THEN {"young"} ELSE {})
    \cup (IF ~e.hasVerifiedEmail THEN {"unverified"} ELSE {})

\* lines 179-181: the check runs when numericPlayerId is truthy
PlayerMismatch(e, pid) == ~Falsy(pid) /\ e.userId # pid

CgoDetail ==
    /\ pc = "detail" /\ h = "cgo"
    /\ UNCHANGED <<h, req, peer, run, Observed>>
    /\ \E a \in DetailAnswers :
        /\ ObserveLookup(a)
        /\ eligL' = Eligibility(eligL.userId, a)
        /\ UNCHANGED <<cookieL, gidL, uidL, pidL, tokL, groupL, idx>>
        /\ IF PlayerMismatch(eligL', pidL)
           THEN /\ Respond(Fail(403, FALSE, "User ID mismatch", "false"))
                /\ net' = net
           ELSE Issue(Fetch("group-info", CookieHeader(cookieL), Undef, gidL, Undef),
                      "group")

GroupAnswers ==
    { [thrown |-> FALSE, status |-> 200, owner |-> Num(7), named |-> TRUE],
      [thrown |-> FALSE, status |-> 200, owner |-> Num(8), named |-> FALSE],
      [thrown |-> FALSE, status |-> 200, owner |-> Undef, named |-> TRUE],
      [thrown |-> FALSE, status |-> 200, owner |-> Str(<<"a", "b", "c">>), named |-> TRUE],
      [thrown |-> FALSE, status |-> 404, owner |-> Undef, named |-> FALSE],
      [thrown |-> TRUE, status |-> 0, owner |-> Undef, named |-> FALSE] }

\* the endpoints with the logout endpoint tried before the login endpoint
CsrfEndpointsSwapped == <<"logout", "login", "request-friendship", "join-requests">>

\* the endpoints with the login endpoint tried once more at the end
CsrfEndpointsRetrying ==
    <<"login", "logout", "request-friendship", "join-requests", "login">>

\* the four endpoints of getCSRFToken in the order it tries them: the login
\* endpoint of line 316, then the list of lines 341-345
CsrfEndpoints == <<"login", "logout", "request-friendship", "join-requests">>

\* an ownership test that lets every caller pass
NotOwnerNever(owner, userId) == FALSE

\* line 222: the caller is not the current owner of the group
NotOwner(owner, userId) == ParseInt(owner) # userId

CgoGroup ==
    /\ pc = "group" /\ h = "cgo"
    /\ UNCHANGED <<h, req, peer, run, Observed>>
    /\ \E a \in GroupAnswers :
        /\ ObserveLookup(a)
        /\ IF a.thrown \/ ~Ok(a)
           THEN Reply(WithRaw(Response(400, FALSE, "Failed to get group info", {},
                                       a.status, "false", "none"), LookupRaw(a)))
           ELSE IF Falsy(a.owner)
           THEN Reply(Fail(400, FALSE, "Group has no owner or group data is invalid", "false"))
           ELSE IF IsNaN(ParseInt(a.owner))
           THEN Reply(Fail(400, FALSE, "Invalid owner ID in group data", "false"))
           ELSE IF NotOwner(a.owner, eligL.userId)
           THEN Reply(Fail(403, FALSE, "Player is not the owner of group", "false"))
           ELSE /\ groupL' = [owner |-> ParseInt(a.owner), named |-> a.named]
                /\ idx' = 1
                /\ Issue(Fetch(CsrfEndpoints[1], CookieHeader(cookieL), Undef, Undef, Undef),
                         "csrf")
                /\ UNCHANGED <<cookieL, gidL, uidL, pidL, tokL, eligL>>

\* the primary mutation call with a token that is not the one passed in
TransferCallFixedToken(token) ==
    Fetch("change-owner", CookieHeader(cookieL), TokenStr(1), gidL, uidL)

\* line 249: the primary mutation call
TransferCall(token) == Fetch("change-owner", CookieHeader(cookieL), token, gidL, uidL)

\* getCSRFToken lines 315-338: the answer of the primary endpoint
CgoCsrfPrimary ==
    /\ pc = "csrf" /\ h = "cgo" /\ idx = 1
    /\ UNCHANGED <<h, req, peer, run>>
    /\ \E a \in TokenAnswers :
        /\ Observe(a)
        /\ UNCHANGED <<cookieL, gidL, uidL, pidL, eligL, groupL>>
        /\ IF ~a.thrown /\ ~Falsy(GetTokenAnyCase(a))
           THEN /\ tokL' = GetTokenAnyCase(a)
                /\ idx' = idx
                /\ Issue(TransferCall(tokL'), "xfer")
           ELSE /\ tokL' = tokL
                /\ idx' = 2
                /\ Issue(Fetch(CsrfEndpoints[2], CookieHeader(cookieL), Undef, Undef,
                               Undef), "csrf")

\* getCSRFToken lines 347-376: the answer of a fallback endpoint; the pause
\* of line 367 follows an answer without token, not a thrown error
CgoCsrfFallback ==
    /\ pc = "csrf" /\ h = "cgo" /\ idx >= 2
    /\ UNCHANGED <<h, req, peer, run>>
    /\ \E a \in TokenAnswers :
        /\ Observe(a)
        /\ UNCHANGED <<cookieL, gidL, uidL, pidL, eligL, groupL>>
        /\ IF ~a.thrown /\ ~Falsy(GetTokenAnyCase(a))
           THEN /\ tokL' = GetTokenAnyCase(a)
                /\ idx' = idx
                /\ Issue(TransferCall(tokL'), "xfer")
           ELSE LET paused == IF a.thrown THEN net ELSE Append(net, Pause)
                IN  /\ tokL' = tokL
                    /\ IF idx < Len(CsrfEndpoints)
                       THEN /\ idx' = idx + 1
                            /\ net' = Append(paused, Fetch(CsrfEndpoints[idx + 1],
                                             CookieHeader(cookieL), Undef, Undef, Undef))
                            /\ pc' = "csrf"
                            /\ sent' = sent
                       ELSE /\ idx' = idx
                            /\ net' = paused
                            /\ Respond(Fail(400, FALSE, "Failed to get CSRF token", "false"))

\* the error message transferGroupOwnership extracts, lines 519-531; the raw
\* text of a body that is not JSON is lost: response.text() runs after
\* response.json() has used the body
ExtractedMessage(a) ==
    CASE a.body = "errChallenge" -> "Challenge is required to authorize the request"
      [] a.body = "errCsrf" -> "CSRF token verification failed"
      [] a.body = "errOther" -> "You do not have permission"
      [] OTHER -> "Unknown error"

\* String.prototype.includes over the messages of the model
Includes(m, word) ==
    CASE word = "Challenge" ->
            m \in {"Challenge is required to authorize the request", "Challenge Required"}
      [] word = "CSRF" ->
            m \in {"CSRF token verification failed", "CSRF Token Invalid"}
      [] OTHER -> FALSE

\* lines 534-548
MappedMessage(status, m) ==
    CASE status = 401 -> "Unauthorized - Invalid authentication cookie"
      [] status = 403 /\ Includes(m, "Challenge") -> "Challenge Required"
      [] status = 403 /\ ~Includes(m, "Challenge") /\ Includes(m, "CSRF") ->
            "CSRF Token Invalid"
      [] status = 403 /\ ~Includes(m, "Challenge") /\ ~Includes(m, "CSRF")
            /\ m = "Unknown error" -> "Forbidden - Insufficient permissions"
      [] status = 404 -> "Not Found - Group does not exist or user cannot access it"
      [] status = 429 -> "Rate Limited - Too many requests"
      [] OTHER -> m

\* transferGroupOwnership, lines 494-564
TransferResult(a) ==
    IF a.thrown THEN [success |-> FALSE, error |-> "fetch failed", statusCode |-> 0]
    ELSE IF Ok(a) THEN [success |-> TRUE, error |-> "", statusCode |-> 0]
    ELSE [success |-> FALSE, error |-> MappedMessage(a.status, ExtractedMessage(a)),
          statusCode |-> a.status]

\* transferGroupOwnershipAlternative, lines 567-603
AlternativeResult(a) ==
    IF a.thrown THEN [success |-> FALSE, error |-> "fetch failed", statusCode |-> 0]
    ELSE IF Ok(a) \/ a.status = 204 THEN [success |-> TRUE, error |-> "", statusCode |-> 0]
    ELSE [success |-> FALSE, error |-> "Alternative method failed", statusCode |-> a.status]

\* line 295
FinalStatus(statusCode) ==
    IF statusCode >= 500 THEN 502 ELSE IF statusCode # 0 THEN statusCode ELSE 400

\* lines 268-300: the response for the last transfer result
CgoFinal(r) ==
    IF r.success
    THEN Response(200, FALSE, "", {}, 0, "true", "summary")
    ELSE Response(FinalStatus(r.statusCode), FALSE, r.error, {}, r.statusCode,
                  "false", "none")

\* the alternate call after every 403, whatever the error says
NeedsAlternativeAny403(r) == ~r.success /\ r.statusCode = 403

\* lines 257-258
NeedsAlternative(r) ==
    ~r.success /\ r.statusCode = 403 /\ Includes(r.error, "Challenge")

CgoTransfer ==
    /\ pc = "xfer" /\ h = "cgo"
    /\ UNCHANGED <<h, req, peer, run, Observed, Locals>>
    /\ \E a \in MutationAnswers :
        /\ ObserveMutation(a)
        /\ IF NeedsAlternative(TransferResult(a))
           THEN Issue(Fetch("membership", CookieHeader(cookieL), tokL, gidL, uidL), "alt")
           ELSE /\ Respond(CgoFinal(TransferResult(a)))
                /\ net' = net

\* answers of the membership endpoint
AlternativeAnswers ==
    { a \in MutationAnswers :
        <<a.status, a.body>> \in {<<200, "data">>, <<204, "empty">>,
                                  <<403, "errChallenge">>, <<500, "text">>, <<0, "empty">>} }

CgoAlternative ==
    /\ pc = "alt" /\ h = "cgo"
    /\ UNCHANGED <<h, req, peer, run, Observed, Locals, net>>
    /\ \E a \in AlternativeAnswers :
        /\ ObserveMutation(a)
        /\ Respond(CgoFinal(AlternativeResult(a)))

Next ==
    \/ TransferEntry
    \/ TransferCsrf
    \/ TransferMutation
    \/ P004Entry
    \/ P004Csrf
    \/ P004Mutation
    \/ P000Entry
    \/ P000Mutation
    \/ P005Entry
    \/ P005Mutation
    \/ P001Entry
    \/ P001Csrf
    \/ P003Entry
    \/ P003Csrf
    \/ P002Entry
    \/ P002Csrf
    \/ P002Mutation
    \/ CgoEntry
    \/ CgoAuth
    \/ CgoDetail
    \/ CgoGroup
    \/ CgoCsrfPrimary
    \/ CgoCsrfFallback
    \/ CgoTransfer
    \/ CgoAlternative

Spec == Init /\ [][Next]_vars

(***************************************************************************)
(* Two invocations at once.  JavaScript runs one invocation at a time and  *)
(* changes to another only at an await: the variables hold the invocation  *)
(* that runs, peer holds the one that waits.  The handlers keep everything *)
(* in locals of the invocation; the modules declare no variable.           *)
(***************************************************************************)
\* the invocation the variables hold, as a record
Running ==
    [h |-> h, req |-> req, pc |-> pc, net |-> net, sent |-> sent,
     cookieL |-> cookieL, gidL |-> gidL, uidL |-> uidL, pidL |-> pidL,
     tokL |-> tokL, eligL |-> eligL, groupL |-> groupL, idx |-> idx,
     lastStatus |-> lastStatus, lastTok |-> lastTok, saw401 |-> saw401,
     threw |-> threw, mutAnswers |-> mutAnswers, netErr |-> netErr, logs |-> logs]

\* an invocation of handler hh with request r that has not begun
FreshInvocation(hh, r) ==
    [h |-> hh, req |-> r, pc |-> "start", net |-> <<>>, sent |-> <<>>,
     cookieL |-> <<>>, gidL |-> Undef, uidL |-> Undef, pidL |-> Null,
     tokL |-> Undef, eligL |-> NoElig, groupL |-> NoGroup, idx |-> 0,
     lastStatus |-> 0, lastTok |-> Null, saw401 |-> FALSE,
     threw |-> FALSE, mutAnswers |-> <<>>, netErr |-> FALSE, logs |-> <<>>]

\* the requests of two invocations of handler hh: both valid, with different
\* renderings of the credential and different group ids
PairRequests(hh, i) ==
    { r \in Requests(hh) :
        /\ r.method = "POST" /\ r.body = "object"
        /\ r.cookie = (IF i = 1 THEN Str(Secret10)
                       ELSE Str(<<" ">> \o Prefix \o Secret10 \o <<" ">>))
        /\ r.groupId \in {Undef, IF i = 1 THEN Num(7) ELSE Str(<<"1", "2", "a", "b", "c">>)}
        /\ r.targetId \in {Undef, Num(9)}
        /\ r.csrfToken \in {Undef, TokenStr(1)}
        /\ r.ownerId \in {Undef, Num(7)}
        /\ r.playerId = Undef
        /\ \A f \in Reads(hh) \ {"playerId"} :
              (CASE f = "groupId" -> r.groupId [] f = "targetId" -> r.targetId
                 [] f = "cookie" -> r.cookie [] f = "csrfToken" -> r.csrfToken
                 [] OTHER -> r.ownerId) # Undef }

InitPair ==
    /\ h \in Handlers
    /\ req \in PairRequests(h, 1)
    /\ Fresh
    /\ peer \in { FreshInvocation(h, r) : r \in PairRequests(h, 2) }
    /\ run = 1

\* an invocation resumed with the token of the invocation that ran before it,
\* as a token kept in a variable of the module would be
ResumedSharingToken(p) == [p EXCEPT !.tokL = tokL]

\* the invocation that resumes: its locals are those it was suspended with
Resumed(p) == p

\* the running invocation waits at its await and the other one resumes
Switch ==
    /\ peer # NoPeer
    /\ peer' = Running
    /\ run' = 3 - run
    /\ h' = Resumed(peer).h
    /\ req' = Resumed(peer).req
    /\ pc' = Resumed(peer).pc
    /\ net' = Resumed(peer).net
    /\ sent' = Resumed(peer).sent
    /\ cookieL' = Resumed(peer).cookieL
    /\ gidL' = Resumed(peer).gidL
    /\ uidL' = Resumed(peer).uidL
    /\ pidL' = Resumed(peer).pidL
    /\ tokL' = Resumed(peer).tokL
    /\ eligL' = Resumed(peer).eligL
    /\ groupL' = Resumed(peer).groupL
    /\ idx' = Resumed(peer).idx
    /\ lastStatus' = Resumed(peer).lastStatus
    /\ lastTok' = Resumed(peer).lastTok
    /\ saw401' = Resumed(peer).saw401
    /\ threw' = Resumed(peer).threw
    /\ mutAnswers' = Resumed(peer).mutAnswers
    /\ netErr' = Resumed(peer).netErr
    /\ logs' = Resumed(peer).logs

\* the remote of the paired runs: every call is answered, the
\* authenticated user is user 7, the token endpoints answer 403 with a
\* token or without the header, the mutation answers 200 with a JSON
\* object, 403 with the Challenge marker, or 500 with a text
Narrow ==
    /\ ~netErr
    /\ eligL.userId \in {Undef, Num(7)}
    /\ lastStatus \in {0, 403}
    /\ lastTok # Str(<<>>)
    /\ \A i \in 1..Len(mutAnswers) :
          <<mutAnswers[i].status, mutAnswers[i].body>>
              \in {<<200, "data">>, <<403, "errChallenge">>, <<500, "text">>}

NextPair ==
    \/ Switch
    \/ Next /\ Narrow'

SpecPair == InitPair /\ [][NextPair]_vars

(***************************************************************************)
(* Notions the properties are stated with.                                 *)
(***************************************************************************)
Done == pc = "done"

\* the request reached the handler as a POST with a JSON object as body
PostObject == req.method = "POST" /\ req.body = "object"

\* the three inputs every transfer needs, as far as handler h takes them
Required == {"groupId", "targetId", "cookie"} \cap Reads(h)

Field(f) ==
    CASE f = "groupId" -> req.groupId
      [] f = "targetId" -> req.targetId
      [] f = "cookie" -> req.cookie
      [] f = "csrfToken" -> req.csrfToken
      [] f = "ownerId" -> req.ownerId
      [] OTHER -> req.playerId

\* the required fields the payload lacks
MissingRequired == { f \in Required : Field(f) = Undef }

\* the extra fields of a handler (client token, owner id) are usable
ExtrasGiven ==
    /\ "csrfToken" \in Reads(h) => req.csrfToken = TokenStr(1)
    /\ "ownerId" \in Reads(h) => ~Falsy(req.ownerId)

\* v is a number, or a string that is a decimal numeral from its first to its
\* last character ("12abc" is not)
Numeric(v) ==
    \/ v.t = "num"
    \/ /\ v.t = "str"
       /\ LET d == IF v.s # <<>> /\ Head(v.s) = "-" THEN Tail(v.s) ELSE v.s
          IN  d # <<>> /\ DigitPrefix(d) = d

\* v is a strictly positive integer, given as number or as numeral
PositiveId(v) == Numeric(v) /\ ParseInt(v).n > 0

\* a supplied identifier that is not numeric or not strictly positive
BadId(v) == v # Undef /\ ~PositiveId(v)

BadIds == { f \in {"groupId", "targetId"} \cap Reads(h) : BadId(Field(f)) }

\* the bare secret of a supplied credential: trimmed, prefix stripped
BareSecret(v) ==
    LET c == Trim(ToStr(v))
    IN  IF StartsWith(c, Prefix) THEN SubSeq(c, Len(Prefix) + 1, Len(c)) ELSE c

\* a supplied credential whose bare secret is shorter than the minimum
ShortCredential == req.cookie # Undef /\ Len(BareSecret(req.cookie)) < MinCookieLen

IsFetch(e) == e.kind = "fetch"

\* a call that carries the anti-forgery header
TokenBearing(e) == IsFetch(e) /\ e.token # Undef

\* handlers that fetch the token themselves and then change the owner
SelfAcquiring == {"transfer", "cgo", "p002", "p004"}

\* the token-fetch calls of getCSRFToken so far
TokenCalls ==
    SelectSeq(net, LAMBDA e : IsFetch(e) /\ e.token = Undef
                               /\ e.ep \in {"login", "logout", "request-friendship",
                                            "join-requests"})

\* a token-fetch answer has arrived and it carried a non-empty token
TokenArrived == lastStatus # 0 /\ ~Falsy(lastTok)

(***************************************************************************)
(* C1: for every handler and payload, a missing required field, a          *)
(* non-numeric or non-positive group or target id, or a credential that    *)
(* fails validation means that no outbound call is issued.                 *)
(* Fails: several handlers validate less than that before they fetch.      *)
(***************************************************************************)
C1_InvalidPayloadNoCall ==
    (PostObject /\ (MissingRequired # {} \/ BadIds # {} \/ ShortCredential))
        => Calls = <<>>

(***************************************************************************)
(* C2: in a handler that fetches the token itself, every call that carries *)
(* the anti-forgery header is an ownership-change call issued after the    *)
(* token fetches, it carries exactly the non-empty token the last token    *)
(* answer held, and an invocation that ends without a token has issued no  *)
(* token-bearing call.                                                     *)
(***************************************************************************)
C2_TokenAfterAcquisition ==
    h \in SelfAcquiring =>
        /\ \A i \in 1..Len(net) :
              TokenBearing(net[i]) =>
                 /\ net[i].ep \in {"transfer-ownership", "change-owner", "membership"}
                 /\ net[i].token.t = "str" /\ net[i].token.s # <<>>
                 /\ net[i].token = lastTok
                 /\ \E j \in 1..(i - 1) : IsFetch(net[j]) /\ ~TokenBearing(net[j])
                 /\ \A j \in (i + 1)..Len(net) : TokenBearing(net[j])
        /\ pc \in {"xfer", "alt"} => TokenBearing(net[Len(net)]) /\ TokenArrived
        /\ (Done /\ ~TokenArrived) => \A i \in 1..Len(net) : ~TokenBearing(net[i])

\* the alternate call of the comprehensive handler is in flight with the
\* second token, which a fallback endpoint handed out
C2_Witness ==
    /\ h = "cgo" /\ pc = "alt"
    /\ lastTok = TokenStr(2)
    /\ net[Len(net)].token = TokenStr(2)
    /\ idx = 3

(***************************************************************************)
(* C3: getCSRFToken tries the login endpoint, then logout, then            *)
(* request-friendship, then join-requests, each at most once and in that   *)
(* order; the first answer that carries a token ends the acquisition with  *)
(* exactly that token: after k answers without token and one with, k+1     *)
(* calls were made and no later endpoint is called.                        *)
(***************************************************************************)
C3_FixedOrderFirstToken ==
    h = "cgo" =>
        /\ Len(TokenCalls) <= 4
        /\ \A i \in 1..Len(TokenCalls) :
              TokenCalls[i].ep =
                 <<"login", "logout", "request-friendship", "join-requests">>[i]
        /\ Len(TokenCalls) = idx
        /\ TokenArrived => /\ pc # "csrf"
                           /\ tokL = lastTok
                           /\ \A i \in 1..Len(net) :
                                 TokenBearing(net[i]) => net[i].token = lastTok
        /\ pc = "csrf" => tokL = Undef

\* k = 1: the login endpoint answered without token, the logout endpoint
\* with one; two calls were made and the mutation goes out with that token
C3_Witness ==
    /\ h = "cgo" /\ pc = "xfer" /\ ~threw
    /\ Len(TokenCalls) = 2
    /\ TokenCalls[2].ep = "logout"
    /\ tokL = TokenStr(2) /\ lastTok = TokenStr(2)

(***************************************************************************)
(* C4: when every endpoint of the chain answers without token, the failure *)
(* carries the status of the last endpoint tried and the handler's error   *)
(* response exposes it.                                                    *)
(* Fails: getCSRFToken returns a fixed error text without any status.      *)
(***************************************************************************)
C4_ExhaustedCarriesLastStatus ==
    (h = "cgo" /\ Done /\ Len(TokenCalls) = 4 /\ ~TokenArrived /\ lastStatus # 0)
        => sent[1].rstatus = lastStatus

(***************************************************************************)
(* C5: in getCSRFToken an answer with status 401 and no token ends the     *)
(* acquisition at once: no further endpoint is called.                     *)
(* Fails: the loop goes on to the next endpoint whatever the status.       *)
(***************************************************************************)
C5_FailFastOn401 ==
    (h = "cgo" /\ saw401) => (pc # "csrf" /\ tokL = Undef)

(***************************************************************************)
(* C6: the token header is the only success signal of a token fetch: an    *)
(* answer of any status that carries a token makes the acquisition succeed *)
(* with it, an answer without one does not.                                *)
(* Fails: the first handler of api/transfer.js looks at response.ok first. *)
(***************************************************************************)
C6_HeaderIsOnlySignal ==
    (lastStatus # 0 /\ pc # "csrf") => (TokenArrived <=> tokL = lastTok)

(***************************************************************************)
(* C7: a payload that lacks a required field is answered with 400 and an   *)
(* error that names exactly the missing fields.                            *)
(* Fails: handlers name all fields, or only the first missing one.         *)
(***************************************************************************)
C7_NamesExactlyMissing ==
    (PostObject /\ ExtrasGiven /\ MissingRequired # {} /\ Done)
        => (sent[1].status = 400 /\ sent[1].names = MissingRequired)

(***************************************************************************)
(* C8: a group id or target id that is not numeric ("12abc" included) or   *)
(* not strictly positive is answered with 400 and a numeric-validation     *)
(* error for that field, and never reaches an outbound call.               *)
(* Fails: parseInt accepts a numeric prefix; some handlers accept any      *)
(* number.                                                                 *)
(***************************************************************************)
C8_BadIdRejected ==
    (PostObject /\ ExtrasGiven /\ MissingRequired = {} /\ req.cookie.t = "str"
     /\ ~ShortCredential /\ BadIds # {})
        => /\ Calls = <<>>
           /\ Done => (sent[1].status = 400 /\ sent[1].names \cap BadIds # {})

(***************************************************************************)
(* C9: a credential whose bare secret is shorter than 10 characters is     *)
(* answered with 400 and no outbound call is made.                         *)
(* Fails: several handlers only test that the credential is not empty.     *)
(***************************************************************************)
C9_ShortCredentialRejected ==
    (PostObject /\ ExtrasGiven /\ MissingRequired = {} /\ BadIds = {}
     /\ ShortCredential)
        => /\ Calls = <<>>
           /\ Done => sent[1].status = 400

(***************************************************************************)
(* C10: a request whose method is not POST is answered with 405 and the    *)
(* header Allow: POST, without any outbound call.                          *)
(* Fails: two handlers answer 405 without the Allow header.                *)
(***************************************************************************)
C10_NotPostIs405WithAllow ==
    req.method # "POST"
        => /\ Calls = <<>>
           /\ pc # "crashed"
           /\ Done => (sent = <<sent[1]>> /\ sent[1].status = 405 /\ sent[1].allow)

(***************************************************************************)
(* Notions of the properties about the mutation and its translation.       *)
(***************************************************************************)
\* a mutation call has been answered
Mutated == mutAnswers # <<>>

\* the answer of the primary mutation call
PrimaryAnswer == mutAnswers[1]

\* the answer of the last mutation call made
FinalAnswer == mutAnswers[Len(mutAnswers)]

\* the body of answer a holds the Challenge marker
HasMarker(a) == a.body = "errChallenge"

\* the errors that name a challenge, and those that name the anti-forgery token
ChallengeErrors == {"Challenge Required", "Challenge is required to authorize the request"}

ForgeryErrors == {"Invalid X-CSRF-TOKEN", "CSRF Token Invalid", "CSRF token verification failed"}

IsAlternative(e) == IsFetch(e) /\ e.ep = "membership"

\* a call of getCSRFToken: no anti-forgery header, one of its four endpoints
IsTokenFetch(e) ==
    IsFetch(e) /\ e.token = Undef
        /\ e.ep \in {"login", "logout", "request-friendship", "join-requests"}

\* the characters sub occur in s, one after the other
Contains(s, sub) ==
    \E i \in 0..(Len(s) - Len(sub)) : SubSeq(s, i + 1, i + Len(sub)) = sub

\* a credential given as text without quotes around it
PlainCredential ==
    req.cookie.t = "str" /\ req.cookie.s # <<>> /\ ~IsQuote(Head(req.cookie.s))

(***************************************************************************)
(* C11: every answer of the mutation with a 2xx status (200, 201, 204,     *)
(* with or without body) is reported as success: HTTP 200 with a true      *)
(* success indicator.                                                      *)
(* Fails: part_002 takes only status 200 for success; handlers that call   *)
(* response.json() unguarded end with 500 on a 2xx without body.           *)
(***************************************************************************)
C11_Every2xxIsSuccess ==
    (Done /\ Mutated /\ ~FinalAnswer.thrown /\ Ok(FinalAnswer))
        => (sent[1].status = 200 /\ sent[1].success = "true")

(***************************************************************************)
(* C12: in a handler that fetches the token itself, a mutation answered    *)
(* with 200 and a structured body yields a success response that contains  *)
(* that body unchanged.                                                    *)
(* Fails: the comprehensive handler answers with a summary of its own and  *)
(* drops the remote body.                                                  *)
(***************************************************************************)
C12_SuccessCarriesRemoteBody ==
    (Done /\ h \in SelfAcquiring /\ Len(mutAnswers) = 1 /\ ~PrimaryAnswer.thrown
     /\ PrimaryAnswer.status = 200 /\ PrimaryAnswer.body = "data")
        => (sent[1].status = 200 /\ sent[1].data = "data")

(***************************************************************************)
(* C13: every answer of the mutation with a 5xx status is reported with    *)
(* the handler's own status 502, never with the remote status.             *)
(* Fails: part_000, part_004, part_005 and the first handler of            *)
(* api/transfer.js answer with the remote status or with 500.              *)
(***************************************************************************)
C13_Remote5xxIs502 ==
    (Done /\ Mutated /\ ~FinalAnswer.thrown /\ FinalAnswer.status >= 500)
        => sent[1].status = 502

(***************************************************************************)
(* C14: when an outbound call fails at network level, during the           *)
(* eligibility check, the group look-up, the token acquisition or the      *)
(* mutation, the invocation ends with HTTP 500, never with a 4xx status or *)
(* a success.                                                              *)
(* Fails: the helpers of the comprehensive handler catch the error; the    *)
(* handler answers 400 or goes on.                                         *)
(***************************************************************************)
C14_NetworkErrorIs500 ==
    (Done /\ netErr) => sent[1].status = 500

(***************************************************************************)
(* C15: a primary mutation answered with 403 is reported as permission     *)
(* denied with HTTP 403; the error names a challenge exactly when the body *)
(* holds the Challenge marker, and it names the anti-forgery token only    *)
(* when the body says so.                                                  *)
(* Fails: part_000 reports every 403 as an invalid anti-forgery token;     *)
(* part_002 has one message for every 403.                                 *)
(***************************************************************************)
C15_ForbiddenIsPermissionDenied ==
    (Done /\ Mutated /\ ~PrimaryAnswer.thrown /\ PrimaryAnswer.status = 403)
        => /\ sent[1].status = 403
           /\ HasMarker(PrimaryAnswer) <=> sent[1].error \in ChallengeErrors
           /\ sent[1].error \in ForgeryErrors => PrimaryAnswer.body = "errCsrf"

(***************************************************************************)
(* C16: the alternate-shaped mutation call is issued at most once per      *)
(* invocation, only right after a primary mutation that was answered with  *)
(* 403 and the Challenge marker, never after a primary success or another  *)
(* failure; no outbound call follows it, and when it fails the response    *)
(* reports that failure.                                                   *)
(***************************************************************************)
C16_AlternateOnceAfterChallenge ==
    /\ Len(SelectSeq(net, IsAlternative)) <= 1
    /\ Len(mutAnswers) <= 2
    /\ \A i \in 1..Len(net) :
          IsAlternative(net[i]) =>
             /\ h = "cgo"
             /\ i = Len(net)
             /\ i > 1 /\ net[i - 1].kind = "fetch" /\ net[i - 1].ep = "change-owner"
             /\ TokenBearing(net[i - 1])
             /\ Mutated /\ ~PrimaryAnswer.thrown
             /\ PrimaryAnswer.status = 403 /\ HasMarker(PrimaryAnswer)
    /\ pc = "alt" => IsAlternative(net[Len(net)])
    /\ (Done /\ Len(mutAnswers) = 2 /\ (FinalAnswer.thrown \/ ~Ok(FinalAnswer)))
          => /\ sent = <<sent[1]>>
             /\ sent[1].success = "false" /\ sent[1].status # 200
             /\ sent[1].rstatus = FinalAnswer.status
             /\ sent[1].error \in {"Alternative method failed", "fetch failed"}

\* the primary call was answered with 403 and the marker, the alternate call
\* with 500: the invocation ended with 502 after exactly that one alternate
C16_Witness ==
    /\ h = "cgo" /\ Done
    /\ Len(mutAnswers) = 2
    /\ PrimaryAnswer.status = 403 /\ HasMarker(PrimaryAnswer)
    /\ FinalAnswer.status = 500
    /\ IsAlternative(net[Len(net)])
    /\ sent[1].status = 502

(***************************************************************************)
(* C17: the attempts of the token acquisition are strictly sequential and  *)
(* a pause lies between every two consecutive attempts, also between the   *)
(* primary and the first fallback and after an attempt that ended with a   *)
(* network error.                                                          *)
(* Fails: getCSRFToken pauses only after a fallback answer without token.  *)
(***************************************************************************)
C17_PauseBetweenAttempts ==
    \A i \in 1..(Len(net) - 1) :
        ~(IsTokenFetch(net[i]) /\ IsTokenFetch(net[i + 1]))

(***************************************************************************)
(* C18: for a credential of any length, no console line holds the complete *)
(* credential.                                                             *)
(* Fails: the first handler of api/transfer.js logs the first 50           *)
(* characters of the credential, which is all of a credential of up to 50  *)
(* characters.                                                             *)
(***************************************************************************)
C18_CredentialNeverLogged ==
    PlainCredential =>
        \A i \in 1..Len(logs) : ~Contains(logs[i], BareSecret(req.cookie))

(***************************************************************************)
(* C19: the credential is normalised the same way for every input form,    *)
(* with or without the prefix and with or without whitespace around it:    *)
(* the Cookie header of every outbound call is the prefix, once, followed  *)
(* by the bare secret, and normalising a normalised credential changes     *)
(* nothing.                                                                *)
(* Fails: part_000 and part_003 keep a prefix that was supplied, part_004  *)
(* and part_005 use the credential as given, the first handler of          *)
(* api/transfer.js does not trim.                                          *)
(***************************************************************************)
C19_OneNormalForm ==
    PlainCredential =>
        /\ \A i \in 1..Len(net) :
              IsFetch(net[i]) => net[i].cookie = Prefix \o BareSecret(req.cookie)
        /\ BareSecret(Str(BareSecret(req.cookie))) = BareSecret(req.cookie)

(***************************************************************************)
(* C20: when the body of the mutation answer is not JSON the handler still *)
(* gives its mapped result and the diagnostic holds the raw text cut to a  *)
(* fixed length; no response holds a remote body of unbounded length and   *)
(* none loses the raw text.                                                *)
(* Fails: transferGroupOwnership reads the body a second time and loses    *)
(* the text; part_003 passes on the whole body of the token answer.        *)
(***************************************************************************)
C20_RawTextKeptAndBounded ==
    Done =>
        /\ sent[1].raw <= 500
        /\ (Mutated /\ ~FinalAnswer.thrown /\ FinalAnswer.body = "text")
              => /\ sent[1].raw > 0
                 /\ sent[1].status \in {FinalAnswer.status, 502}

(***************************************************************************)
(* Notions of the properties about the course of an invocation.            *)
(***************************************************************************)
\* the invocation has returned or died
Ended == pc \in {"done", "crashed"}

\* a call that changes the owner: the primary mutation or the alternate
IsMutation(e) ==
    IsFetch(e) /\ TokenBearing(e)
        /\ e.ep \in {"change-owner", "transfer-ownership", "membership"}

\* the places in net of the calls to endpoint ep
CallsTo(ep) == { i \in 1..Len(net) : IsFetch(net[i]) /\ net[i].ep = ep }

(***************************************************************************)
(* C22: every invocation ends after a bounded number of outbound calls and *)
(* nothing is retried: getCSRFToken calls each of its four endpoints at    *)
(* most once, a network error at one endpoint moves it on to the next and  *)
(* never leaves it as an exception, it ends with a token or with a failure *)
(* result, and the primary mutation endpoint is called with a token at     *)
(* most once.  No invocation is left at an await without a next step.      *)
(***************************************************************************)
C22_BoundedNoRetry ==
    /\ Len(Calls) <= 9
    /\ Cardinality({ i \in 1..Len(net) :
                       IsMutation(net[i]) /\ net[i].ep # "membership" }) <= 1
    /\ ~Ended => ENABLED Next
    /\ h = "cgo" =>
          /\ \A ep \in {"login", "logout", "request-friendship", "join-requests"} :
                Cardinality(CallsTo(ep)) <= 1
          /\ pc = "csrf" => /\ IsTokenFetch(net[Len(net)])
                            /\ net[Len(net)].ep =
                                  <<"login", "logout", "request-friendship",
                                    "join-requests">>[idx]
          /\ threw => pc # "crashed"
          /\ (Done /\ lastStatus # 0 /\ Len(mutAnswers) = 0 /\ TokenCalls # <<>>
              /\ ~TokenArrived)
                => (sent[1].status = 400 /\ sent[1].error = "Failed to get CSRF token")

\* the first three endpoints threw, the last answered without token: each
\* was called once and the invocation ended with the failure result
C22_Witness ==
    /\ h = "cgo" /\ Done /\ threw
    /\ Len(TokenCalls) = 4
    /\ \A i \in 1..Len(net) : net[i].kind = "pause" => i = Len(net)
    /\ sent[1].status = 400 /\ sent[1].error = "Failed to get CSRF token"

(***************************************************************************)
(* C23: every invocation of every handler sends exactly one HTTP response, *)
(* for every request (any method, any body, an absent body and the JSON    *)
(* body null included) and every remote behaviour: never none, never two.  *)
(* Fails: the handlers destructure the body outside every try block; a     *)
(* null or absent body ends the invocation without a response.             *)
(***************************************************************************)
C23_ExactlyOneResponse ==
    /\ Len(sent) <= 1
    /\ Ended => Len(sent) = 1

(***************************************************************************)
(* C24: in the comprehensive handler a token fetch or an ownership-change  *)
(* call is made only after the look-up of the authenticated user and the   *)
(* look-up of the group both succeeded and the owner of the group is the   *)
(* authenticated user; otherwise the invocation ends with an error and     *)
(* without such a call.                                                    *)
(***************************************************************************)
C24_LookupsBeforeTransfer ==
    h = "cgo" =>
        /\ \A i \in 1..Len(net) :
              (IsTokenFetch(net[i]) \/ IsMutation(net[i])) =>
                 /\ eligL.userId.t = "num"
                 /\ groupL.owner = eligL.userId
                 /\ \E j \in CallsTo("users-authenticated") :
                       \E k \in CallsTo("group-info") : j < k /\ k < i
        /\ (Done /\ groupL = NoGroup) =>
              /\ sent[1].status \in {400, 403, 405}
              /\ \A i \in 1..Len(net) : ~IsTokenFetch(net[i]) /\ ~IsMutation(net[i])

\* user 7 is authenticated and owns the group: the mutation is in flight
\* after both look-ups and the token fetch
C24_Witness ==
    /\ h = "cgo" /\ pc = "xfer"
    /\ eligL.userId = Num(7) /\ groupL.owner = Num(7)
    /\ CallsTo("users-authenticated") # {} /\ CallsTo("group-info") # {}
    /\ IsMutation(net[Len(net)])

(***************************************************************************)
(* C25: in the comprehensive handler, whenever the request supplies a      *)
(* playerId, of any value, numeric or not, the invocation goes beyond the  *)
(* authentication step only if the id of the authenticated user equals     *)
(* that playerId; otherwise it answers 403 and looks up no group.          *)
(* Fails: a playerId that parseInt turns into NaN or 0 is falsy and the    *)
(* check of line 179 is skipped.                                           *)
(***************************************************************************)
C25_PlayerIdEnforced ==
    (h = "cgo" /\ PostObject /\ req.playerId # Undef) =>
        /\ CallsTo("group-info") # {} =>
              (Numeric(req.playerId) /\ eligL.userId = ParseInt(req.playerId))
        /\ (Done /\ CallsTo("users-detail") # {} /\ CallsTo("group-info") = {}
            /\ lastStatus = 0)
              => sent[1].status = 403

(***************************************************************************)
(* Notions of the properties about two invocations at once.                *)
(***************************************************************************)
\* invocation i of the two, whether it runs or waits
Slot(i) == IF run = i THEN Running ELSE peer

\* every call of invocation s carries the credential, the ids and the token
\* that s holds itself, and its credential is text of its own request
OwnCalls(s) ==
    /\ Contains(ToStr(s.req.cookie), s.cookieL)
    /\ \A i \in 1..Len(s.net) :
          IsFetch(s.net[i]) =>
             /\ s.net[i].cookie = CookieHeader(s.cookieL)
             /\ s.net[i].token \in {Undef, s.tokL}
             /\ s.net[i].gid \in {Undef, s.gidL}
             /\ s.net[i].uid \in {Undef, s.uidL, s.eligL.userId}

(***************************************************************************)
(* C21: with two invocations of a handler interleaved at their awaits, a   *)
(* step changes the state of the invocation that runs and of no other, and *)
(* every call of an invocation is built from its own credential, ids and   *)
(* token: each invocation goes as it would alone with the same request and *)
(* the same answers.                                                       *)
(***************************************************************************)
C21_InvocationsIndependent ==
    /\ [][\A i \in {1, 2} : Slot(i)' # Slot(i) => (run = i /\ run' = i)]_vars
    /\ [](\A i \in {1, 2} : OwnCalls(Slot(i)))

\* two invocations of the comprehensive handler wait at different awaits
\* with different tokens: the first for its alternate call, the second for
\* its primary mutation
C21_Witness ==
    /\ h = "cgo" /\ peer.h = "cgo"
    /\ Slot(1).pc = "alt" /\ Slot(2).pc = "xfer"
    /\ Slot(1).tokL = TokenStr(2) /\ Slot(2).tokL = TokenStr(1)
    /\ Slot(1).gidL # Slot(2).gidL

====
